---- MODULE Spec2Model ----
(***************************************************************************)
(* Model of vscan-broken-link-checker (src/main.py): one run of main(),    *)
(* from argument parsing through scan_website / scan_html_file to the      *)
(* report on stdout and the optional output file.                          *)
(*                                                                         *)
(* The network, the file system and the HTML document are the environment: *)
(* every requests.get / open either yields a value or raises, and the      *)
(* model draws that outcome nondeterministically when the call returns.    *)
(***************************************************************************)
EXTENDS Integers, Sequences, FiniteSets, TLC

\* Largest number of <a> elements in a scanned document.
MaxAnchors == 2

----------------------------------------------------------------------------
\* Values

\* Python's None for a status code; a numeric status n is <<n>>.
None == <<>>

\* The command lines: argv without the positional argument, or with one
\* of the sample targets.  prefix is the leading "scheme://" of the text.
Targets ==
  { [text |-> "http://example.com", prefix |-> "http://", scheme |-> "http",
     netloc |-> "example.com", dir |-> <<>>, parseRaises |-> FALSE],
    [text |-> "HTTP://example.com/d/p.html", prefix |-> "HTTP://", scheme |-> "http",
     netloc |-> "example.com", dir |-> <<"d">>, parseRaises |-> FALSE],
    [text |-> "http://", prefix |-> "http://", scheme |-> "http",
     netloc |-> "", dir |-> <<>>, parseRaises |-> FALSE],
    [text |-> "http://[", prefix |-> "http://", scheme |-> "",
     netloc |-> "", dir |-> <<>>, parseRaises |-> TRUE],
    [text |-> "page.html", prefix |-> "", scheme |-> "",
     netloc |-> "", dir |-> <<>>, parseRaises |-> FALSE],
    [text |-> "", prefix |-> "", scheme |-> "",
     netloc |-> "", dir |-> <<>>, parseRaises |-> FALSE] }

\* argv: the positional argument is absent (<<>>) or present (<<t>>).
Argvs == {<<>>} \cup { <<t>> : t \in Targets }

\* The <a> elements a document may contain.
Anchors ==
  { [kind |-> "abs",    host |-> "example.com", path |-> <<"a">>],
    [kind |-> "root",   host |-> "",            path |-> <<"a">>],
    [kind |-> "rel",    host |-> "",            path |-> <<"a">>],
    [kind |-> "abs",    host |-> "other.com",   path |-> <<"x">>],
    [kind |-> "bad",    host |-> "[",           path |-> <<>>],
    [kind |-> "nohref", host |-> "",            path |-> <<>>] }

\* Documents: sequences of at most MaxAnchors anchors.
Documents == UNION { [1..n -> Anchors] : n \in 0..MaxAnchors }

\* What a requests.get can do: a response with a status code, a
\* requests.exceptions.RequestException, or any other exception.
Response(code) == [kind |-> "response", code |-> code]
RequestException == [kind |-> "RequestException", code |-> 0]
OtherException == [kind |-> "Exception", code |-> 0]

LinkOutcomes == {Response(399), Response(400), RequestException, OtherException}
RootOutcomes == {Response(200), Response(404), RequestException, OtherException}

\* What open()/read() of the input file can do.
FileOutcomes == {"ok", "FileNotFoundError", "OSError"}

\* Content of the output file before the run.
StaleLine == [url |-> [host |-> "old.example", path |-> <<>>],
              text |-> [word |-> "", code |-> 500]]
OldFiles == {<<>>, <<StaleLine>>}

NoOutcome == [kind |-> "none", code |-> 0]
NoTarget == [text |-> "", prefix |-> "", scheme |-> "", netloc |-> "",
             dir |-> <<>>, parseRaises |-> FALSE]
NoBase == [host |-> "", dir |-> <<>>]

----------------------------------------------------------------------------
\* State

VARIABLES
  pc,            \* position of main()
  argv,          \* the command line's positional argument, if any
  ignore_ssl,    \* args.ignore_ssl
  output,        \* args.output is given
  url,           \* main's url (args.url)
  mode,          \* "none", "remote" (scan_website) or "file" (scan_html_file)
  base,          \* base URL handed to get_all_links
  loadOutcome,   \* what the root GET / the file read did
  loaded,        \* html has been obtained
  html,          \* the document
  extracted,     \* get_all_links has returned
  links,         \* the Link Set
  todo,          \* links the for loop has not yet reached
  inflight,      \* links whose verification request is outstanding
  resp,          \* what each verification request did, once it returned
  results,       \* the scan function's local results dict (insertion order)
  ret,           \* main's results: the mapping the scan returned
  broken_links,  \* main's broken_links dict
  printed,       \* lines on stdout
  file,          \* content of the output file
  writeOutcome,  \* "none", "ok" or "failed"
  reqs,          \* every GET issued, in order
  exitCode       \* process exit status once pc = "exit"

vars == <<pc, argv, ignore_ssl, output, url, mode, base, loadOutcome, loaded,
          html, extracted, links, todo, inflight, resp, results, ret,
          broken_links, printed, file, writeOutcome, reqs, exitCode>>

----------------------------------------------------------------------------
\* Pure functions

\* str.lower() on the leading "scheme://" of the target.
Lower(prefix) ==
  CASE prefix = "HTTP://"  -> "http://"
    [] prefix = "HTTPS://" -> "https://"
    [] OTHER               -> prefix

\* url.lower().startswith(("http://", "https://"))
StartsWithHttp(t) == Lower(t.prefix) \in {"http://", "https://"}

\* is_valid_url: all([scheme, netloc]); False when urlparse raises.
is_valid_url(t) ==
  IF t.parseRaises THEN FALSE ELSE t.scheme # "" /\ t.netloc # ""

\* find_all('a', href=True) keeps the anchors that carry an href.
HasHref(a) == a.kind # "nohref"

\* urllib.parse.urljoin raises ValueError on a malformed href.
UrljoinRaises(a) == a.kind = "bad"

\* urllib.parse.urljoin(base, href)
urljoin(b, a) ==
  CASE a.kind = "abs"  -> [host |-> a.host, path |-> a.path]
    [] a.kind = "root" -> [host |-> b.host, path |-> a.path]
    [] OTHER           -> [host |-> b.host, path |-> b.dir \o a.path]

\* get_all_links raises when one of its urljoin calls does.
GetAllLinksRaises(doc) ==
  \E i \in DOMAIN doc : HasHref(doc[i]) /\ UrljoinRaises(doc[i])

\* get_all_links: the set of resolved hrefs.
get_all_links(b, doc) ==
  { urljoin(b, doc[i]) : i \in { j \in DOMAIN doc : HasHref(doc[j]) } }

\* response.raise_for_status() raises HTTPError for 4xx and 5xx.
RaisesForStatus500(code) == code >= 500 /\ code < 600
RaisesForStatus(code) == code >= 400 /\ code < 600

\* verify= of the GET issued by check_link_status.
LinkVerify(ignore) == ~ignore

\* check_link_status, for the outcomes it returns on: the status code of
\* a response, None for a RequestException.
check_link_status_500(u, o) ==
  [url |-> u, status |-> IF o.kind = "response" THEN <<o.code>> ELSE <<500>>]
check_link_status(u, o) ==
  [url |-> u, status |-> IF o.kind = "response" THEN <<o.code>> ELSE None]

\* d[k] = v on a dict kept in insertion order.
DictSet(d, k, v) ==
  IF \E i \in DOMAIN d : d[i].url = k
    THEN [i \in DOMAIN d |-> IF d[i].url = k THEN [url |-> k, status |-> v] ELSE d[i]]
    ELSE Append(d, [url |-> k, status |-> v])

Keys(d) == { d[i].url : i \in DOMAIN d }

\* The requests.get of the for loop blocks until it returns.
NeverBlocked(fl) == FALSE
Blocked(fl) == fl # {}

\* for link in links: the loop ends when the set is exhausted.
LoopExhausted(td) == td = {}

\* except-clause of scan_html_file: return {}
ScanHtmlFileKeep(d) == d
ScanHtmlFileExcept(d) == <<>>

\* status is None or status >= 400
IsBrokenAbove(status) == status = None \/ status[1] > 400
IsBroken(status) == status = None \/ status[1] >= 400

\* {url: status for url, status in results.items() if ...}
BrokenLinks(d) == SelectSeq(d, LAMBDA e : IsBroken(e.status))

\* f"{status if status is not None else 'Error'}"
Fmt(status) ==
  IF status = None THEN [word |-> "Error", code |-> 0]
                   ELSE [word |-> "", code |-> status[1]]

\* f"{url}: {...}"
Line(e) == [url |-> e.url, text |-> Fmt(e.status)]

Lines(d) == [i \in DOMAIN d |-> Line(d[i])]

NoLine == [url |-> [host |-> "", path |-> <<>>], text |-> [word |-> "", code |-> 0]]
Out(kind, line) == [kind |-> kind, line |-> line]

----------------------------------------------------------------------------
\* Initial state: the process has started, nothing has run.

Init ==
  /\ pc = "start"
  /\ argv \in Argvs
  /\ ignore_ssl \in BOOLEAN
  /\ output \in BOOLEAN
  /\ file \in OldFiles
  /\ url = NoTarget
  /\ mode = "none"
  /\ base = NoBase
  /\ loadOutcome = NoOutcome
  /\ loaded = FALSE
  /\ html = <<>>
  /\ extracted = FALSE
  /\ links = {}
  /\ todo = {}
  /\ inflight = {}
  /\ resp = <<>>
  /\ results = <<>>
  /\ ret = <<>>
  /\ broken_links = <<>>
  /\ printed = <<>>
  /\ writeOutcome = "none"
  /\ reqs = <<>>
  /\ exitCode = 0

scanVars == <<loadOutcome, loaded, html, extracted, links, todo, inflight,
              resp, results, reqs>>
mainVars == <<ret, broken_links, printed, file, writeOutcome>>
argVars == <<argv, ignore_ssl, output>>

\* An exception nobody catches: traceback, exit status 1.
Crash ==
  /\ pc' = "exit"
  /\ exitCode' = 1

----------------------------------------------------------------------------
\* main: argument handling

\* parser.parse_args() without the positional argument: usage error, exit 2.
ArgMissing ==
  /\ pc = "start"
  /\ argv = <<>>
  /\ pc' = "exit"
  /\ exitCode' = 2
  /\ UNCHANGED <<argVars, url, mode, base, scanVars, mainVars>>

\* if not url: print(...); sys.exit(1)
EmptyTarget ==
  /\ pc = "start"
  /\ argv # <<>>
  /\ argv[1].text = ""
  /\ url' = argv[1]
  /\ printed' = Append(printed, Out("error", NoLine))
  /\ pc' = "exit"
  /\ exitCode' = 1
  /\ UNCHANGED <<argVars, mode, base, scanVars, ret, broken_links, file, writeOutcome>>

\* http(s) prefix and not is_valid_url(url): print(...); sys.exit(1)
InvalidUrl ==
  /\ pc = "start"
  /\ argv # <<>>
  /\ argv[1].text # ""
  /\ StartsWithHttp(argv[1])
  /\ ~is_valid_url(argv[1])
  /\ url' = argv[1]
  /\ printed' = Append(printed, Out("error", NoLine))
  /\ pc' = "exit"
  /\ exitCode' = 1
  /\ UNCHANGED <<argVars, mode, base, scanVars, ret, broken_links, file, writeOutcome>>

\* results = scan_website(url, args.timeout, args.ignore_ssl)
EnterScanWebsite ==
  /\ pc = "start"
  /\ argv # <<>>
  /\ argv[1].text # ""
  /\ StartsWithHttp(argv[1])
  /\ is_valid_url(argv[1])
  /\ url' = argv[1]
  /\ mode' = "remote"
  /\ base' = [host |-> argv[1].netloc, dir |-> argv[1].dir]
  /\ pc' = "fetch"
  /\ UNCHANGED <<argVars, scanVars, mainVars, exitCode>>

\* results = scan_html_file(url, ...), base_url = "http://localhost"
EnterScanHtmlFile ==
  /\ pc = "start"
  /\ argv # <<>>
  /\ argv[1].text # ""
  /\ ~StartsWithHttp(argv[1])
  /\ url' = argv[1]
  /\ mode' = "file"
  /\ base' = [host |-> "localhost", dir |-> <<>>]
  /\ pc' = "open"
  /\ UNCHANGED <<argVars, scanVars, mainVars, exitCode>>

----------------------------------------------------------------------------
\* scan_website: the root document

\* response = requests.get(url, timeout=timeout)
RootRequest ==
  /\ pc = "fetch"
  /\ reqs' = Append(reqs, [kind |-> "root",
                           url |-> [host |-> url.netloc, path |-> url.dir],
                           verify |-> TRUE])
  /\ pc' = "fetch_wait"
  /\ UNCHANGED <<argVars, url, mode, base, loadOutcome, loaded, html, extracted,
                 links, todo, inflight, resp, results, mainVars, exitCode>>

\* A 2xx/3xx response: raise_for_status passes, html = response.text
RootResponseOk ==
  /\ pc = "fetch_wait"
  /\ \E o \in RootOutcomes, doc \in Documents :
       /\ o.kind = "response"
       /\ ~RaisesForStatus(o.code)
       /\ loadOutcome' = o
       /\ html' = doc
  /\ loaded' = TRUE
  /\ pc' = "extract"
  /\ UNCHANGED <<argVars, url, mode, base, extracted, links, todo, inflight,
                 resp, results, reqs, mainVars, exitCode>>

\* A 4xx/5xx response: raise_for_status raises HTTPError, a
\* RequestException; the except clause returns {}.
RootResponseHttpError ==
  /\ pc = "fetch_wait"
  /\ \E o \in RootOutcomes :
       /\ o.kind = "response"
       /\ RaisesForStatus(o.code)
       /\ loadOutcome' = o
  /\ ret' = <<>>
  /\ pc' = "classify"
  /\ UNCHANGED <<argVars, url, mode, base, loaded, html, extracted, links, todo,
                 inflight, resp, results, reqs, broken_links, printed, file,
                 writeOutcome, exitCode>>

\* requests.get raises a RequestException: logged, return {}.
RootRequestException ==
  /\ pc = "fetch_wait"
  /\ loadOutcome' = RequestException
  /\ ret' = <<>>
  /\ pc' = "classify"
  /\ UNCHANGED <<argVars, url, mode, base, loaded, html, extracted, links, todo,
                 inflight, resp, results, reqs, broken_links, printed, file,
                 writeOutcome, exitCode>>

\* requests.get raises anything else (ValueError for a timeout <= 0, ...):
\* scan_website has no handler for it and neither has main.
RootOtherException ==
  /\ pc = "fetch_wait"
  /\ loadOutcome' = OtherException
  /\ Crash
  /\ UNCHANGED <<argVars, url, mode, base, loaded, html, extracted, links, todo,
                 inflight, resp, results, reqs, mainVars>>

----------------------------------------------------------------------------
\* scan_html_file: the local document

\* with open(file_path, 'r', encoding='utf-8') as f: html = f.read()
OpenFileOk ==
  /\ pc = "open"
  /\ \E doc \in Documents : html' = doc
  /\ loadOutcome' = [kind |-> "ok", code |-> 0]
  /\ loaded' = TRUE
  /\ pc' = "extract"
  /\ UNCHANGED <<argVars, url, mode, base, extracted, links, todo, inflight,
                 resp, results, reqs, mainVars, exitCode>>

\* except FileNotFoundError: return {}
OpenFileNotFound ==
  /\ pc = "open"
  /\ loadOutcome' = [kind |-> "FileNotFoundError", code |-> 0]
  /\ ret' = <<>>
  /\ pc' = "classify"
  /\ UNCHANGED <<argVars, url, mode, base, loaded, html, extracted, links, todo,
                 inflight, resp, results, reqs, broken_links, printed, file,
                 writeOutcome, exitCode>>

\* open/read raises anything else (permissions, decoding, a directory):
\* except Exception: return {}
OpenFileUnreadable ==
  /\ pc = "open"
  /\ loadOutcome' = [kind |-> "OSError", code |-> 0]
  /\ ret' = ScanHtmlFileExcept(results)
  /\ pc' = "classify"
  /\ UNCHANGED <<argVars, url, mode, base, loaded, html, extracted, links, todo,
                 inflight, resp, results, reqs, broken_links, printed, file,
                 writeOutcome, exitCode>>

----------------------------------------------------------------------------
\* Both scan functions: extraction and the verification loop

\* links = get_all_links(base, html); results = {}
GetAllLinks ==
  /\ pc = "extract"
  /\ ~GetAllLinksRaises(html)
  /\ links' = get_all_links(base, html)
  /\ todo' = links'
  /\ extracted' = TRUE
  /\ results' = <<>>
  /\ pc' = "loop"
  /\ UNCHANGED <<argVars, url, mode, base, loadOutcome, loaded, html, inflight,
                 resp, reqs, mainVars, exitCode>>

\* urljoin raises ValueError inside get_all_links, called from scan_website:
\* not a RequestException, so nothing catches it.
GetAllLinksRaisesRemote ==
  /\ pc = "extract"
  /\ mode = "remote"
  /\ GetAllLinksRaises(html)
  /\ Crash
  /\ UNCHANGED <<argVars, url, mode, base, scanVars, mainVars>>

\* The same inside scan_html_file: except Exception: return {}
GetAllLinksRaisesFile ==
  /\ pc = "extract"
  /\ mode = "file"
  /\ GetAllLinksRaises(html)
  /\ ret' = ScanHtmlFileExcept(results)
  /\ pc' = "classify"
  /\ UNCHANGED <<argVars, url, mode, base, scanVars, broken_links, printed,
                 file, writeOutcome, exitCode>>

\* for link in links: check_link_status issues requests.get(link, ...),
\* with verify=False when ignore_ssl is set.
IssueCheck ==
  /\ pc = "loop"
  /\ ~Blocked(inflight)
  /\ \E l \in todo :
       /\ todo' = todo \ {l}
       /\ inflight' = inflight \cup {l}
       /\ reqs' = Append(reqs, [kind |-> "link", url |-> l,
                                verify |-> LinkVerify(ignore_ssl)])
  /\ UNCHANGED <<pc, argVars, url, mode, base, loadOutcome, loaded, html,
                 extracted, links, resp, results, mainVars, exitCode>>

\* The request returns a response: return url, response.status_code;
\* results[link_url] = status_code
CheckResponse ==
  /\ pc = "loop"
  /\ \E l \in inflight, o \in LinkOutcomes :
       /\ o.kind = "response"
       /\ resp' = (l :> o) @@ resp
       /\ inflight' = inflight \ {l}
       /\ LET r == check_link_status(l, o)
          IN  results' = DictSet(results, r.url, r.status)
  /\ UNCHANGED <<pc, argVars, url, mode, base, loadOutcome, loaded, html,
                 extracted, links, todo, reqs, mainVars, exitCode>>

\* The request raises a RequestException: logged, return url, None;
\* results[link_url] = None
CheckRequestException ==
  /\ pc = "loop"
  /\ \E l \in inflight :
       /\ resp' = (l :> RequestException) @@ resp
       /\ inflight' = inflight \ {l}
       /\ LET r == check_link_status(l, RequestException)
          IN  results' = DictSet(results, r.url, r.status)
  /\ UNCHANGED <<pc, argVars, url, mode, base, loadOutcome, loaded, html,
                 extracted, links, todo, reqs, mainVars, exitCode>>

\* The request raises anything else: check_link_status lets it through,
\* scan_website lets it through, main lets it through.
CheckOtherExceptionRemote ==
  /\ pc = "loop"
  /\ mode = "remote"
  /\ \E l \in inflight :
       /\ resp' = (l :> OtherException) @@ resp
       /\ inflight' = inflight \ {l}
  /\ Crash
  /\ UNCHANGED <<argVars, url, mode, base, loadOutcome, loaded, html, extracted,
                 links, todo, results, reqs, mainVars>>

\* The same in scan_html_file: except Exception: logged, return {}
CheckOtherExceptionFile ==
  /\ pc = "loop"
  /\ mode = "file"
  /\ \E l \in inflight :
       /\ resp' = (l :> OtherException) @@ resp
       /\ inflight' = inflight \ {l}
  /\ ret' = ScanHtmlFileExcept(results)
  /\ pc' = "classify"
  /\ UNCHANGED <<argVars, url, mode, base, loadOutcome, loaded, html, extracted,
                 links, todo, results, reqs, broken_links, printed, file,
                 writeOutcome, exitCode>>

\* The loop is over: return results
ReturnResults ==
  /\ pc = "loop"
  /\ ~Blocked(inflight)
  /\ LoopExhausted(todo)
  /\ ret' = results
  /\ pc' = "classify"
  /\ UNCHANGED <<argVars, url, mode, base, scanVars, broken_links, printed,
                 file, writeOutcome, exitCode>>

----------------------------------------------------------------------------
\* main: classification and report

\* broken_links = {url: status for ... if status is None or status >= 400}
Classify ==
  /\ pc = "classify"
  /\ broken_links' = BrokenLinks(ret)
  /\ pc' = "report"
  /\ UNCHANGED <<argVars, url, mode, base, scanVars, ret, printed, file,
                 writeOutcome, exitCode>>

\* if broken_links: print the header and one line per broken link
ReportBroken ==
  /\ pc = "report"
  /\ broken_links # <<>>
  /\ printed' = printed \o <<Out("header", NoLine)>>
                        \o [i \in DOMAIN broken_links |->
                              Out("link", Line(broken_links[i]))]
  /\ IF output
       THEN pc' = "write" /\ exitCode' = exitCode
       ELSE pc' = "exit" /\ exitCode' = 0
  /\ UNCHANGED <<argVars, url, mode, base, scanVars, ret, broken_links, file,
                 writeOutcome>>

\* else: print("No broken links found.")
ReportNone ==
  /\ pc = "report"
  /\ broken_links = <<>>
  /\ printed' = Append(printed, Out("none", NoLine))
  /\ pc' = "exit"
  /\ exitCode' = 0
  /\ UNCHANGED <<argVars, url, mode, base, scanVars, ret, broken_links, file,
                 writeOutcome>>

\* with open(args.output, 'w') as f: one line per broken link;
\* print("Results saved to ...")
WriteOk ==
  /\ pc = "write"
  /\ file' = Lines(broken_links)
  /\ writeOutcome' = "ok"
  /\ printed' = Append(printed, Out("saved", NoLine))
  /\ pc' = "exit"
  /\ exitCode' = 0
  /\ UNCHANGED <<argVars, url, mode, base, scanVars, ret, broken_links>>

\* open or write raises: the file is untouched (open failed) or truncated
\* to the lines written so far; except Exception: logged.
WriteFail ==
  /\ pc = "write"
  /\ \/ file' = file
     \/ \E n \in 0..(Len(broken_links) - 1) :
          file' = SubSeq(Lines(broken_links), 1, n)
  /\ writeOutcome' = "failed"
  /\ pc' = "exit"
  /\ exitCode' = 0
  /\ UNCHANGED <<argVars, url, mode, base, scanVars, ret, broken_links, printed>>

----------------------------------------------------------------------------

Next ==
  \/ ArgMissing
  \/ EmptyTarget
  \/ InvalidUrl
  \/ EnterScanWebsite
  \/ EnterScanHtmlFile
  \/ RootRequest
  \/ RootResponseOk
  \/ RootResponseHttpError
  \/ RootRequestException
  \/ RootOtherException
  \/ OpenFileOk
  \/ OpenFileNotFound
  \/ OpenFileUnreadable
  \/ GetAllLinks
  \/ GetAllLinksRaisesRemote
  \/ GetAllLinksRaisesFile
  \/ IssueCheck
  \/ CheckResponse
  \/ CheckRequestException
  \/ CheckOtherExceptionRemote
  \/ CheckOtherExceptionFile
  \/ ReturnResults
  \/ Classify
  \/ ReportBroken
  \/ ReportNone
  \/ WriteOk
  \/ WriteFail

Spec == Init /\ [][Next]_vars

----------------------------------------------------------------------------
\* Vocabulary of the properties

\* The scan function has returned its mapping to main.
ScanReturned == pc \in {"classify", "report", "write"} \/ (pc = "exit" /\ mode # "none" /\ exitCode = 0)

\* main has printed its report.
ReportDone == pc = "write" \/ (pc = "exit" /\ mode # "none" /\ exitCode = 0)

\* Positions in reqs of the link-verification requests.
LinkReqs == { i \in DOMAIN reqs : reqs[i].kind = "link" }

\* Number of verification requests issued for u.
CountReqs(u) == Cardinality({ i \in LinkReqs : reqs[i].url = u })

\* URLs of the broken-link lines on stdout.
ReportedUrls == { printed[i].line.url : i \in { j \in DOMAIN printed : printed[j].kind = "link" } }

\* The broken-link lines on stdout, in order.
ReportedLines ==
  LET ls == SelectSeq(printed, LAMBDA o : o.kind = "link")
  IN  [i \in DOMAIN ls |-> ls[i].line]

\* The Source Loader failed: RequestException or 4xx/5xx on the root GET,
\* missing or unreadable file.
LoaderFailed ==
  \/ loadOutcome.kind \in {"RequestException", "FileNotFoundError", "OSError"}
  \/ loadOutcome.kind = "response" /\ loadOutcome.code >= 400 /\ loadOutcome.code <= 599

----------------------------------------------------------------------------
\* C1: once the report is printed, the links reported as broken are exactly
\* the entries of the returned mapping whose status is None or >= 400
\* (399 is never reported, 400 and None always are).
C1_BrokenExactlyReported ==
  ReportDone =>
    ReportedUrls =
      { ret[i].url : i \in { j \in DOMAIN ret :
                               ret[j].status = None \/ ret[j].status[1] >= 400 } }

\* A report over a mapping that holds both a 399 and a 400 entry.
C1_Witness ==
  /\ ReportDone
  /\ \E i, j \in DOMAIN ret : ret[i].status = <<399>> /\ ret[j].status = <<400>>

\* C2: every key of the Result Mapping is a member of the Link Set, and when
\* a scan whose loader succeeded returns, the key set equals the Link Set.
C2_KeysEqualLinkSet ==
  /\ Keys(results) \subseteq links
  /\ Keys(ret) \subseteq links
  /\ (ScanReturned /\ loaded) =>
        (Keys(ret) = links /\ Len(ret) = Cardinality(links))

\* C3: at most one verification request per URL, and exactly one for each
\* member of the Link Set once the scan has returned.
C3_ExactlyOneRequestPerLink ==
  /\ \A i \in LinkReqs : CountReqs(reqs[i].url) <= 1
  /\ ScanReturned => \A l \in links : CountReqs(l) = 1

\* C4: when the Source Loader fails, nothing is extracted, no verification
\* request is issued, the scan returns the empty mapping without raising,
\* and the run reports no broken links and exits 0.
C4_LoaderFailureEmptyResult ==
  LoaderFailed =>
    /\ ~extracted
    /\ LinkReqs = {}
    /\ pc \in {"classify", "report", "exit"}
    /\ ret = <<>>
    /\ broken_links = <<>>
    /\ pc = "exit" => (exitCode = 0 /\ printed = <<Out("none", NoLine)>>)

\* A finished run whose root GET was answered 404.
C4_Witness ==
  /\ pc = "exit"
  /\ loadOutcome = Response(404)

\* C5: a link whose verification raises a RequestException is recorded with
\* status None, the loop goes on with the links still to check untouched,
\* and each recorded status is determined by that link's own request alone.
C5_PerLinkIndependence ==
  /\ [](\A i \in DOMAIN results :
          /\ results[i].url \in DOMAIN resp
          /\ results[i].status =
               IF resp[results[i].url].kind = "response"
                 THEN <<resp[results[i].url].code>> ELSE None)
  /\ [][ \A l \in inflight :
           (l \notin DOMAIN resp /\ l \in DOMAIN resp' /\ resp'[l] = RequestException)
             => /\ results' = Append(results, [url |-> l, status |-> None])
                /\ pc' = "loop"
                /\ todo' = todo
                /\ ret' = ret
                /\ exitCode' = exitCode ]_vars

\* A link failed with a RequestException and a link checked after it got
\* its response recorded.
C5_Witness ==
  \E i, j \in DOMAIN results :
    /\ i < j
    /\ resp[results[i].url] = RequestException
    /\ results[i].status = None
    /\ results[j].status = <<399>>

\* C6: with the ignore-TLS flag set, no request of the scan, the root fetch
\* included, is issued with TLS verification enabled.
C6_IgnoreSslGovernsAllRequests ==
  ignore_ssl => \A i \in DOMAIN reqs : ~reqs[i].verify

\* C7: the process exits non-zero exactly when the target is missing or has
\* an http(s):// prefix but fails validation, and then no request was issued.
C7_ExitCode ==
  pc = "exit" =>
    /\ (exitCode # 0) <=>
         \/ argv = <<>>
         \/ argv[1].text = ""
         \/ /\ Lower(argv[1].prefix) \in {"http://", "https://"}
            /\ (argv[1].parseRaises \/ argv[1].scheme = "" \/ argv[1].netloc = "")
    /\ exitCode # 0 => reqs = <<>>

\* C8: with an output path given and no write failure, after the run the
\* output file holds exactly the broken-link lines that were printed.
C8_OutputFileMatchesReport ==
  (pc = "exit" /\ exitCode = 0 /\ mode # "none" /\ output /\ writeOutcome # "failed")
    => file = ReportedLines

\* C9: nothing is extracted before the loader succeeded, no verification
\* request is issued before extraction produced the Link Set (which then
\* never changes), at most one request is outstanding, and classification
\* starts only when every issued request has returned, after which no
\* request is issued and no outcome recorded.
C9_StagesOrdered ==
  /\ [](/\ extracted => loaded
        /\ links # {} => extracted
        /\ LinkReqs # {} => extracted
        /\ Cardinality(inflight) <= 1
        /\ pc \in {"report", "write"} =>
             (inflight = {} /\ \A i \in LinkReqs : reqs[i].url \in DOMAIN resp))
  /\ [][ /\ Len(reqs') > Len(reqs) /\ reqs'[Len(reqs')].kind = "link"
             => (extracted /\ inflight = {} /\ reqs'[Len(reqs')].url \in links)
         /\ extracted => links' = links
         /\ pc \in {"report", "write", "exit"}
             => (reqs' = reqs /\ results' = results /\ resp' = resp) ]_vars

\* A report printed after two verification requests.
C9_Witness ==
  /\ ReportDone
  /\ Cardinality(LinkReqs) = 2

====
